---- MODULE Spec2Model ----
(***************************************************************************)
(* State-machine model of detect_tokens.py: main()'s loop over the url     *)
(* list, the SIGALRM deadline around the supervised try block, the         *)
(* exception handlers, the failure screenshot and the sqlite persistence.  *)
(* One action per statement group of main(); the browser objects, the      *)
(* scorer and the store are the environment and answer nondeterministically*)
(***************************************************************************)
EXTENDS Integers, Sequences, FiniteSets, TLC

VARIABLES
    urls,            \* the url list read at line 197
    manual,          \* args.manual
    timeout,         \* args.timeout (0 = no alarm)
    maxtokens,       \* args.maxtokens (0 stands for None)
    i,               \* 1-based position of the for loop (line 202)
    pc,              \* position of main() inside the iteration
    url,             \* the cleaned url of the iteration (line 210)
    is_auth,         \* line 219 / 232 / 236
    is_ambiguous,    \* line 220 / 240
    cookies,         \* line 248
    unique_cookies,  \* line 216 / 253 / 287
    tokens,          \* line 217 / 258
    alarm,           \* 0 = no SIGALRM pending, k = the alarm armed in iteration k
    handling,        \* the exception kind an except clause is handling, or "none"
    exc,             \* the exception propagating (uncaught), or "none"
    db,              \* committed rows of the store
    pending,         \* rows inserted in the open transaction, not yet committed
    has_failed,      \* line 279
    calls,           \* what the running iteration has invoked (observation only)
    firefox_quit,    \* number of firefox.quit() calls
    ghost_quit       \* number of ghost.quit() calls

vars == <<urls, manual, timeout, maxtokens, i, pc, url, is_auth, is_ambiguous,
          cookies, unique_cookies, tokens, alarm, handling, exc, db, pending,
          has_failed, calls, firefox_quit, ghost_quit>>

----------------------------------------------------------------------------
(* Bounds of the model. *)
MaxUrls == 2
MaxCookies == 2

(* Url strings are sequences of characters. *)
HttpPrefix == <<"h", "t", "t", "p", ":", "/", "/">>
HttpsPrefix == <<"h", "t", "t", "p", "s", ":", "/", "/">>

UrlHttp == HttpPrefix \o <<"a", " ", "c">>
UrlHttps == HttpsPrefix \o <<"b">>
UrlNoScheme == <<"a", ".", "c">>

UrlPool == {UrlHttp, UrlHttps, UrlNoScheme}

RECURSIVE IsInjective(_)
IsInjective(s) ==
    IF Len(s) <= 1 THEN TRUE
    ELSE /\ \A k \in 2..Len(s) : s[k] # s[1]
         /\ IsInjective(Tail(s))

(* The url lists of a run: one to MaxUrls distinct urls of the pool. *)
UrlLists ==
    UNION { {s \in [1..n -> UrlPool] : IsInjective(s)} : n \in 1..MaxUrls }

(* str.startswith *)
StartsWith(s, p) == Len(s) >= Len(p) /\ SubSeq(s, 1, Len(p)) = p

(* line 206 *)
IsValidUrl(u) == StartsWith(u, HttpPrefix) \/ StartsWith(u, HttpsPrefix)

(* line 210: url.replace(' ', '') *)
RECURSIVE RemoveSpaces(_)
RemoveSpaces(s) ==
    IF s = <<>> THEN <<>>
    ELSE IF Head(s) = " " THEN RemoveSpaces(Tail(s))
    ELSE <<Head(s)>> \o RemoveSpaces(Tail(s))

(* The longest raw cookie sequence the deduplication is studied on. *)
MaxDedupLen == 3

(* Cookies that differ from the first in the name, the value or the domain   *)
(* only.                                                                     *)
DedupPool ==
    { [name |-> "a", value |-> "1", domain |-> "d"],
      [name |-> "b", value |-> "1", domain |-> "d"],
      [name |-> "a", value |-> "2", domain |-> "d"],
      [name |-> "a", value |-> "1", domain |-> "e"] }

DedupInputs == UNION { [1..n -> DedupPool] : n \in 0..MaxDedupLen }

(* Raw cookies as the browser returns them. *)
CookiePool ==
    { [name |-> "a", value |-> "1", domain |-> "d"],
      [name |-> "b", value |-> "1", domain |-> "d"] }

RawCookieSeqs == UNION { [1..n -> CookiePool] : n \in 0..MaxCookies }

(* utils.delete_duplicates: keep the first occurrence of each cookie. *)
RECURSIVE delete_duplicates(_)
delete_duplicates(s) ==
    IF s = <<>> THEN <<>>
    ELSE LET front == delete_duplicates(SubSeq(s, 1, Len(s) - 1))
             last == s[Len(s)]
         IN IF \E k \in 1..Len(front) : front[k] = last
            THEN front
            ELSE Append(front, last)

Range(s) == { s[k] : k \in 1..Len(s) }

(* The answers ghost.detect_authentication_tokens may give: a ranked list of *)
(* distinct cookies of the set it was handed, no longer than max_tokens.     *)
ScorerOutputs(cks, maxt) ==
    LET limit == IF maxt = 0 THEN Len(cks) ELSE IF maxt < Len(cks) THEN maxt ELSE Len(cks)
    IN UNION { {s \in [1..n -> Range(cks)] : IsInjective(s)} : n \in 0..limit }

(* The answers utils.get_http_cookies may give: <<http names, httponly names>>. *)
HttpCookieData == { <<{"a"}, {"a", "b"}>>, <<{"a"}, {}>> }

(* Variant: line 295 consults the HttpOnly names instead of the HTTP names. *)
LabelJsFromHttpOnly(ck, http_cks, httponly_cks) ==
    [name |-> ck.name, value |-> ck.value, domain |-> ck.domain,
     js |-> ~(ck.name \in httponly_cks),
     httponly |-> (ck.name \in httponly_cks)]

(* lines 294-296 *)
Label(ck, http_cks, httponly_cks) ==
    [name |-> ck.name, value |-> ck.value, domain |-> ck.domain,
     js |-> ~(ck.name \in http_cks),
     httponly |-> (ck.name \in httponly_cks)]

LabelAll(cks, data) == [k \in 1..Len(cks) |-> Label(cks[k], data[1], data[2])]

(* The except clauses of lines 265-273. *)
CaughtKinds == {"URLError", "CannotSendRequest", "TimeoutException", "BadStatusLine"}

(* What a browser round trip may raise; "Other" is any exception no clause names. *)
BrowserErrors == {"URLError", "CannotSendRequest", "TimeoutException", "BadStatusLine", "Other"}

NoCalls ==
    [started |-> FALSE, armed |-> 0, stale |-> FALSE, first |-> "none",
     auth |-> 0, wait |-> 0, isauth2 |-> 0, getck |-> 0, detect |-> 0,
     scored |-> "none", shot |-> 0, caught |-> FALSE, fired |-> "none",
     auth_on |-> "none", auth_result |-> "none", second |-> "none",
     http_data |-> "none"]

EmptyStore == [website |-> <<>>, cookie |-> <<>>, token |-> <<>>]

Set(h, field, val) == [h EXCEPT ![field] = val]
Inc(h, field) == [h EXCEPT ![field] = @ + 1]

----------------------------------------------------------------------------
Init ==
    /\ urls \in UrlLists
    /\ manual \in BOOLEAN
    /\ timeout \in {0, 1}
    /\ maxtokens \in {0, 1}
    /\ i = 1
    /\ pc = "loop"
    /\ url = <<>>
    /\ is_auth = FALSE
    /\ is_ambiguous = FALSE
    /\ cookies = <<>>
    /\ unique_cookies = <<>>
    /\ tokens = <<>>
    /\ alarm = 0
    /\ handling = "none"
    /\ exc = "none"
    /\ db = EmptyStore
    /\ pending = EmptyStore
    /\ has_failed = FALSE
    /\ calls = NoCalls
    /\ firefox_quit = 0
    /\ ghost_quit = 0

----------------------------------------------------------------------------
cfg == <<urls, manual, timeout, maxtokens>>
browsers == <<firefox_quit, ghost_quit>>
locals == <<url, is_auth, is_ambiguous, cookies, unique_cookies, tokens, has_failed>>

(* The statements of the try body, lines 229-263. *)
TryBody == {"is_auth1", "authenticate", "wait", "is_auth2", "ambiguous",
            "verdict", "get_cookies", "dedup", "detect"}

(* An exception of `kind` raised by a statement of the try body: an except   *)
(* clause of lines 265-273 takes it, or it passes through finally uncaught.  *)
(* h is the iteration's record of invocations, the raising call included.    *)
RaiseInTry(kind, h) ==
    /\ IF kind \in CaughtKinds
       THEN /\ pc' = "except"
            /\ handling' = kind
            /\ exc' = exc
            /\ calls' = Set(h, "caught", TRUE)
       ELSE /\ pc' = "finally"
            /\ handling' = handling
            /\ exc' = kind
            /\ calls' = h

(* An exception raised outside the try statement leaves the for loop. *)
RaiseOutside(kind) ==
    /\ pc' = "propagate"
    /\ exc' = kind
    /\ handling' = "none"

(* line 202, loop exhausted: the with block of line 163 is left normally,    *)
(* which commits whatever the connection still holds.                        *)
ExitLoop ==
    /\ pc = "loop"
    /\ i > Len(urls)
    /\ pc' = "quit_firefox"
    /\ db' = [website |-> db.website \o pending.website,
              cookie |-> db.cookie \o pending.cookie,
              token |-> db.token \o pending.token]
    /\ pending' = EmptyStore
    /\ UNCHANGED <<cfg, i, locals, alarm, handling, exc, calls, browsers>>

(* lines 206, 310-311: a url without scheme is reported and passed over. *)
SkipUrl ==
    /\ pc = "loop"
    /\ i <= Len(urls)
    /\ ~IsValidUrl(urls[i])
    /\ i' = i + 1
    /\ UNCHANGED <<cfg, pc, locals, alarm, handling, exc, db, pending, calls, browsers>>

(* lines 206-220: the url is cleaned and the iteration's locals are reset.   *)
(* cookies and has_failed keep their old values in the code; every          *)
(* iteration writes them before it reads them, so they are cleared here too. *)
ProcessUrlIf(valid) ==
    /\ pc = "loop"
    /\ i <= Len(urls)
    /\ valid
    /\ url' = RemoveSpaces(urls[i])
    /\ unique_cookies' = <<>>
    /\ tokens' = <<>>
    /\ is_auth' = FALSE
    /\ is_ambiguous' = FALSE
    /\ cookies' = <<>>
    /\ has_failed' = FALSE
    /\ pc' = "arm"
    /\ calls' = Set(NoCalls, "started", TRUE)
    /\ UNCHANGED <<cfg, i, alarm, handling, exc, db, pending, browsers>>

(* Variant: the scheme test of line 206 is missing. *)
ProcessUrlUnchecked == ProcessUrlIf(TRUE)

ProcessUrl == ProcessUrlIf(IsValidUrl(urls[i]))

(* lines 223-224: signal.alarm(args.timeout); alarm(0) arms nothing. *)
Arm ==
    /\ pc = "arm"
    /\ alarm' = IF timeout > 0 THEN i ELSE 0
    /\ calls' = Set(IF timeout > 0 THEN Inc(calls, "armed") ELSE calls,
                    "stale", alarm # 0)
    /\ pc' = "try"
    /\ UNCHANGED <<cfg, i, locals, handling, exc, db, pending, browsers>>

(* line 226 *)
EnterTry ==
    /\ pc = "try"
    /\ pc' = "is_auth1"
    /\ UNCHANGED <<cfg, i, locals, alarm, handling, exc, db, pending, calls, browsers>>

(* lines 43-44: SIGALRM is delivered and timeout_handler raises              *)
(* TimeoutException in whichever statement main() is executing.              *)
AlarmFire ==
    /\ alarm # 0
    /\ pc \notin {"done", "aborted", "propagate"}
    /\ alarm' = 0
    /\ IF pc \in TryBody
       THEN RaiseInTry("TimeoutException", Set(calls, "fired", pc))
       ELSE /\ calls' = Set(calls, "fired", pc)
            /\ IF pc = "except"
               THEN \* raised inside an except clause: finally runs, then it propagates
                    /\ pc' = "finally"
                    /\ exc' = "TimeoutException"
                    /\ handling' = "none"
               ELSE \* before the try, inside finally, or after the try statement
                    RaiseOutside("TimeoutException")
    /\ UNCHANGED <<cfg, i, locals, db, pending, browsers>>

(* Variant: the else branch of line 238 is missing, an authenticated page is *)
(* handled like any other.                                                   *)
AfterFirstCheckNoShortCircuit(r) ==
    IF manual THEN "wait" ELSE "authenticate"

(* Variant: args.manual is not consulted, the login is always automatic. *)
AfterFirstCheckIgnoresManual(r) ==
    IF r THEN "ambiguous" ELSE "authenticate"

(* lines 229-240: where the first is_authenticated answer leads. *)
AfterFirstCheck(r) ==
    IF r THEN "ambiguous" ELSE IF manual THEN "wait" ELSE "authenticate"

(* line 229: firefox.is_authenticated(url) *)
IsAuthenticated1 ==
    /\ pc = "is_auth1"
    /\ \/ \E r \in BOOLEAN :
            /\ pc' = AfterFirstCheck(r)
            /\ calls' = Set(calls, "first", IF r THEN "true" ELSE "false")
            /\ UNCHANGED <<handling, exc>>
       \/ \E kind \in BrowserErrors : RaiseInTry(kind, calls)
    /\ UNCHANGED <<cfg, i, locals, alarm, db, pending, browsers>>

(* What an authenticate call leaves in the record of invocations: it was    *)
(* handed firefox.current_url, and r is its answer ("none" when it raised).  *)
Authenticated(h, r) ==
    Set(Set(Inc(h, "auth"), "auth_on", "current_url"), "auth_result", r)

(* line 232: is_auth = firefox.authenticate(firefox.current_url) *)
AuthenticateStep(again) ==
    /\ pc = "authenticate"
    /\ \/ \E r \in BOOLEAN :
            /\ is_auth' = r
            /\ pc' = IF again /\ ~r /\ calls.auth = 0 THEN "authenticate" ELSE "verdict"
            /\ calls' = Authenticated(calls, IF r THEN "true" ELSE "false")
            /\ UNCHANGED <<handling, exc>>
       \/ /\ \E kind \in BrowserErrors : RaiseInTry(kind, Authenticated(calls, "none"))
          /\ UNCHANGED is_auth
    /\ UNCHANGED <<cfg, i, url, is_ambiguous, cookies, unique_cookies, tokens,
                   has_failed, alarm, db, pending, browsers>>

(* Variant: a failed login is tried a second time. *)
AuthenticateTwice == AuthenticateStep(TRUE)

Authenticate == AuthenticateStep(FALSE)

(* line 235: utils.start_timer(args.timetologin) *)
ManualWait ==
    /\ pc = "wait"
    /\ pc' = "is_auth2"
    /\ calls' = Inc(calls, "wait")
    /\ UNCHANGED <<cfg, i, locals, alarm, handling, exc, db, pending, browsers>>

(* line 236: is_auth = firefox.is_authenticated(firefox.current_url) *)
IsAuthenticated2 ==
    /\ pc = "is_auth2"
    /\ \/ \E r \in BOOLEAN :
            /\ is_auth' = r
            /\ pc' = "verdict"
            /\ calls' = Set(Inc(calls, "isauth2"), "second",
                            IF r THEN "true" ELSE "false")
            /\ UNCHANGED <<handling, exc>>
       \/ /\ \E kind \in BrowserErrors : RaiseInTry(kind, Inc(calls, "isauth2"))
          /\ UNCHANGED is_auth
    /\ UNCHANGED <<cfg, i, url, is_ambiguous, cookies, unique_cookies, tokens,
                   has_failed, alarm, db, pending, browsers>>

(* lines 238-240 *)
MarkAmbiguous ==
    /\ pc = "ambiguous"
    /\ is_ambiguous' = TRUE
    /\ pc' = "verdict"
    /\ UNCHANGED <<cfg, i, url, is_auth, cookies, unique_cookies, tokens, has_failed,
                   alarm, handling, exc, db, pending, calls, browsers>>

(* lines 242-244, 262-263 *)
VerdictOn(success) ==
    /\ pc = "verdict"
    /\ pc' = IF success THEN "get_cookies" ELSE "finally"
    /\ UNCHANGED <<cfg, i, locals, alarm, handling, exc, db, pending, calls, browsers>>

(* Variant: line 242 reads `if not is_ambiguous`. *)
VerdictIgnoresLogin == VerdictOn(~is_ambiguous)

Verdict == VerdictOn(is_auth /\ ~is_ambiguous)

(* lines 247-248: post_auth_url = firefox.current_url; cookies = firefox.get_cookies() *)
GetCookies ==
    /\ pc = "get_cookies"
    /\ \/ /\ cookies' \in RawCookieSeqs
          /\ pc' = "dedup"
          /\ calls' = Inc(calls, "getck")
          /\ UNCHANGED <<handling, exc>>
       \/ /\ \E kind \in BrowserErrors : RaiseInTry(kind, Inc(calls, "getck"))
          /\ UNCHANGED cookies
    /\ UNCHANGED <<cfg, i, url, is_auth, is_ambiguous, unique_cookies, tokens,
                   has_failed, alarm, db, pending, browsers>>

(* Variant: line 253 is missing, the cookies are used as the browser gave    *)
(* them.                                                                     *)
DedupSkipped ==
    /\ pc = "dedup"
    /\ unique_cookies' = cookies
    /\ pc' = "detect"
    /\ UNCHANGED <<cfg, i, url, is_auth, is_ambiguous, cookies, tokens, has_failed,
                   alarm, handling, exc, db, pending, calls, browsers>>

(* line 253 *)
Dedup ==
    /\ pc = "dedup"
    /\ unique_cookies' = delete_duplicates(cookies)
    /\ pc' = "detect"
    /\ UNCHANGED <<cfg, i, url, is_auth, is_ambiguous, cookies, tokens, has_failed,
                   alarm, handling, exc, db, pending, calls, browsers>>

(* lines 258-261: tokens = ghost.detect_authentication_tokens(...) *)
Detect ==
    /\ pc = "detect"
    /\ \/ /\ tokens' \in ScorerOutputs(unique_cookies, maxtokens)
          /\ pc' = "finally"
          /\ calls' = Set(Inc(calls, "detect"), "scored",
                          IF tokens' = <<>> THEN "empty" ELSE "nonempty")
          /\ UNCHANGED <<handling, exc>>
       \/ /\ \E kind \in BrowserErrors : RaiseInTry(kind, Inc(calls, "detect"))
          /\ UNCHANGED tokens
    /\ UNCHANGED <<cfg, i, url, is_auth, is_ambiguous, cookies, unique_cookies,
                   has_failed, alarm, db, pending, browsers>>

(* lines 265-273: the matching except clause logs a warning. *)
Except ==
    /\ pc = "except"
    /\ handling' = "none"
    /\ pc' = "finally"
    /\ UNCHANGED <<cfg, i, locals, alarm, exc, db, pending, calls, browsers>>

(* lines 275-277: signal.alarm(0), then an uncaught exception goes on. *)
FinallyStep(disarm) ==
    /\ pc = "finally"
    /\ alarm' = IF disarm THEN 0 ELSE alarm
    /\ pc' = IF exc # "none" THEN "propagate" ELSE "post"
    /\ UNCHANGED <<cfg, i, locals, handling, exc, db, pending, calls, browsers>>

(* Variant: signal.alarm(0) is the last statement of the try body instead   *)
(* of a finally clause, so it is passed over when an exception was raised.   *)
FinallyDisarmOnSuccess == FinallyStep(exc = "none" /\ ~calls.caught)

Finally == FinallyStep(TRUE)

(* Variant: has_failed = not unique_cookies *)
HasFailedByCookies(tks) == unique_cookies = <<>>

(* line 279: has_failed = not tokens *)
HasFailed(tks) == tks = <<>>

(* Variant: no log image is taken for an ambiguous page. *)
PostSkipsAmbiguous ==
    /\ pc = "post"
    /\ has_failed' = HasFailed(tokens)
    /\ pc' = IF has_failed'
             THEN (IF is_ambiguous THEN "add_entry" ELSE "screenshot")
             ELSE "classify"
    /\ UNCHANGED <<cfg, i, url, is_auth, is_ambiguous, cookies, unique_cookies, tokens,
                   alarm, handling, exc, db, pending, calls, browsers>>

(* lines 279-281, 289 *)
Post ==
    /\ pc = "post"
    /\ has_failed' = HasFailed(tokens)
    /\ pc' = IF has_failed' THEN "screenshot" ELSE "classify"
    /\ UNCHANGED <<cfg, i, url, is_auth, is_ambiguous, cookies, unique_cookies, tokens,
                   alarm, handling, exc, db, pending, calls, browsers>>

(* lines 282-287: the log image is taken, then the cookies are dropped. *)
ScreenshotStep(kept) ==
    /\ pc = "screenshot"
    /\ calls' = Inc(calls, "shot")
    /\ \/ /\ unique_cookies' = kept
          /\ pc' = "add_entry"
          /\ UNCHANGED <<handling, exc>>
       \/ /\ \E kind \in BrowserErrors : RaiseOutside(kind)
          /\ UNCHANGED unique_cookies
    /\ UNCHANGED <<cfg, i, url, is_auth, is_ambiguous, cookies, tokens, has_failed,
                   alarm, db, pending, browsers>>

(* Variant: line 287 is missing. *)
ScreenshotKeepsCookies == ScreenshotStep(unique_cookies)

Screenshot == ScreenshotStep(<<>>)

(* lines 290-296 *)
ClassifyStep(labelled) ==
    /\ pc = "classify"
    /\ \E data \in HttpCookieData :
          /\ unique_cookies' = IF labelled THEN LabelAll(unique_cookies, data)
                                       ELSE unique_cookies
          /\ calls' = Set(calls, "http_data", data)
    /\ pc' = "add_entry"
    /\ UNCHANGED <<cfg, i, url, is_auth, is_ambiguous, cookies, tokens, has_failed,
                   alarm, handling, exc, db, pending, browsers>>

(* Variant: the cookies are stored as the browser gave them, without flags. *)
ClassifyLeavesUnlabelled == ClassifyStep(FALSE)

Classify == ClassifyStep(TRUE)

(* How far the inserts of utils.add_entry get: all of them, or a store error *)
(* before the website row, after it, or after the cookie rows.               *)
InsertStages == {"none", "website", "cookies", "all"}

(* utils.add_entry: the website row, then its cookie rows, then its token    *)
(* rows are inserted in the open transaction.                                *)
add_entry(p, site, website, cks, tks, stage) ==
    [website |-> IF stage \in {"website", "cookies", "all"}
                 THEN Append(p.website,
                             [id |-> site, url |-> website[1], failed |-> website[2]])
                 ELSE p.website,
     cookie |-> IF stage \in {"cookies", "all"}
                THEN p.cookie \o [k \in 1..Len(cks) |-> [site |-> site, ck |-> cks[k]]]
                ELSE p.cookie,
     token |-> IF stage = "all"
               THEN p.token \o [k \in 1..Len(tks) |-> [site |-> site, tk |-> tks[k]]]
               ELSE p.token]

(* Variant: the store error is caught and logged like a browser error. *)
StoreFailureDowngraded ==
    /\ pc' = "clean"
    /\ UNCHANGED <<handling, exc>>

(* A sqlite3 error in add_entry or commit: lines 298-305 are outside the try *)
(* statement, so it leaves the loop.                                         *)
StoreFailure == RaiseOutside("PersistenceError")

(* What conn.commit() makes durable. *)
Merge(d, p) ==
    [website |-> d.website \o p.website,
     cookie |-> d.cookie \o p.cookie,
     token |-> d.token \o p.token]

(* lines 298-302; the connection of line 163 opens a transaction at the      *)
(* first insert and keeps it open until commit (autocommit is off).          *)
AddEntryWith(autocommit) ==
    /\ pc = "add_entry"
    /\ \E stage \in InsertStages :
          LET inserted == add_entry(pending, i, <<url, has_failed>>,
                                    unique_cookies, tokens, stage)
          IN /\ pending' = IF autocommit THEN EmptyStore ELSE inserted
             /\ db' = IF autocommit THEN Merge(db, inserted) ELSE db
             /\ IF stage = "all"
                THEN pc' = "commit" /\ UNCHANGED <<handling, exc>>
                ELSE StoreFailure
    /\ UNCHANGED <<cfg, i, locals, alarm, calls, browsers>>

(* Variant: the connection is opened with isolation_level=None. *)
AddEntryAutocommit == AddEntryWith(TRUE)

AddEntry == AddEntryWith(FALSE)

(* line 305 *)
Commit ==
    /\ pc = "commit"
    /\ \/ /\ db' = Merge(db, pending)
          /\ pending' = EmptyStore
          /\ pc' = "clean"
          /\ UNCHANGED <<handling, exc>>
       \/ /\ StoreFailure
          /\ UNCHANGED <<db, pending>>
    /\ UNCHANGED <<cfg, i, locals, alarm, calls, browsers>>

(* Variant: lines 315-316 are indented into the loop body, the browsers are  *)
(* quit at the end of every iteration.                                       *)
CleanHarsAndQuit ==
    /\ pc = "clean"
    /\ i' = i + 1
    /\ pc' = "loop"
    /\ firefox_quit' = firefox_quit + 1
    /\ ghost_quit' = ghost_quit + 1
    /\ UNCHANGED <<cfg, locals, alarm, handling, exc, db, pending, calls>>

(* line 308, then the next turn of the loop *)
CleanHars ==
    /\ pc = "clean"
    /\ i' = i + 1
    /\ pc' = "loop"
    /\ UNCHANGED <<cfg, locals, alarm, handling, exc, db, pending, calls, browsers>>

(* line 163: an exception leaves the with block, the connection rolls the    *)
(* open transaction back, and main() ends with the exception.                *)
Rollback ==
    /\ pc = "propagate"
    /\ pending' = EmptyStore
    /\ pc' = "aborted"
    /\ UNCHANGED <<cfg, i, locals, alarm, handling, exc, db, calls, browsers>>

(* line 315 *)
QuitFirefox ==
    /\ pc = "quit_firefox"
    /\ firefox_quit' = firefox_quit + 1
    /\ \/ pc' = "quit_ghost" /\ UNCHANGED <<handling, exc>>
       \/ \E kind \in BrowserErrors : pc' = "aborted" /\ exc' = kind /\ UNCHANGED handling
    /\ UNCHANGED <<cfg, i, locals, alarm, db, pending, calls, ghost_quit>>

(* line 316 *)
QuitGhost ==
    /\ pc = "quit_ghost"
    /\ ghost_quit' = ghost_quit + 1
    /\ \/ pc' = "done" /\ UNCHANGED <<handling, exc>>
       \/ \E kind \in BrowserErrors : pc' = "aborted" /\ exc' = kind /\ UNCHANGED handling
    /\ UNCHANGED <<cfg, i, locals, alarm, db, pending, calls, firefox_quit>>

Next ==
    \/ ExitLoop
    \/ SkipUrl
    \/ ProcessUrl
    \/ Arm
    \/ EnterTry
    \/ AlarmFire
    \/ IsAuthenticated1
    \/ Authenticate
    \/ ManualWait
    \/ IsAuthenticated2
    \/ MarkAmbiguous
    \/ Verdict
    \/ GetCookies
    \/ Dedup
    \/ Detect
    \/ Except
    \/ Finally
    \/ Post
    \/ Screenshot
    \/ Classify
    \/ AddEntry
    \/ Commit
    \/ CleanHars
    \/ Rollback
    \/ QuitFirefox
    \/ QuitGhost

Spec == Init /\ [][Next]_vars

----------------------------------------------------------------------------
(* Reading the store. *)
WebsiteRows(store, k) == { n \in 1..Len(store.website) : store.website[n].id = k }
CookieRows(store, k) == { n \in 1..Len(store.cookie) : store.cookie[n].site = k }
TokenRows(store, k) == { n \in 1..Len(store.token) : store.token[n].site = k }

(* The rows of url k in `store` are the complete result of its iteration. *)
Recorded(store, k) ==
    /\ Cardinality(WebsiteRows(store, k)) = 1
    /\ \A n \in WebsiteRows(store, k) :
          store.website[n] = [id |-> k, url |-> url, failed |-> has_failed]
    /\ [n \in 1..Cardinality(CookieRows(store, k)) |->
          store.cookie[CHOOSE m \in CookieRows(store, k) :
                          Cardinality({x \in CookieRows(store, k) : x < m}) = n - 1].ck]
       = unique_cookies
    /\ [n \in 1..Cardinality(TokenRows(store, k)) |->
          store.token[CHOOSE m \in TokenRows(store, k) :
                         Cardinality({x \in TokenRows(store, k) : x < m}) = n - 1].tk]
       = tokens

(* The statements from arming to the end of the finally clause. *)
Supervised == {"try", "except", "finally"} \cup TryBody

(* An iteration of the loop was cut short by an exception. *)
IterationAborted == pc \in {"propagate", "aborted"} /\ i <= Len(urls)

TransportKinds == {"URLError", "CannotSendRequest", "BadStatusLine"}

(* C1: every committed Website row with failed = TRUE has no Cookie and no   *)
(* Token row, and every committed Website row with failed = FALSE has at     *)
(* least one Token row.                                                      *)
C1_FailedRowsHaveNoChildren ==
    \A n \in 1..Len(db.website) :
        LET w == db.website[n]
        IN /\ w.failed => CookieRows(db, w.id) = {} /\ TokenRows(db, w.id) = {}
           /\ ~w.failed => TokenRows(db, w.id) # {}

(* A failed url whose cookies had been collected before the scorer raised,   *)
(* committed after a successful one.                                         *)
C1_Witness ==
    /\ pc = "clean"
    /\ calls.caught /\ calls.detect = 1 /\ cookies # <<>>
    /\ \E n \in 1..Len(db.website) : db.website[n].id = i /\ db.website[n].failed
    /\ \E n \in 1..Len(db.website) :
          /\ ~db.website[n].failed
          /\ CookieRows(db, db.website[n].id) # {}

(* The row of the running iteration, once inserted, says failed and has no   *)
(* Cookie or Token row beside it.                                            *)
RecordedAsFailed(store) ==
    /\ Cardinality(WebsiteRows(store, i)) = 1
    /\ \A n \in WebsiteRows(store, i) : store.website[n].failed
    /\ CookieRows(store, i) = {}
    /\ TokenRows(store, i) = {}

(* C2: when an exception was caught inside the supervised steps of a url,    *)
(* the url is recorded as a Website row with failed = TRUE and no Cookie or  *)
(* Token row, and the loop goes on to the next url (a store error apart,     *)
(* which ends the run by design).                                            *)
C2_CaughtIsRecordedAndLoopGoesOn ==
    calls.caught =>
        /\ IterationAborted => exc = "PersistenceError"
        /\ pc = "clean" => RecordedAsFailed(db)

(* C3: no transport failure or browser termination raised by a browser round *)
(* trip of an iteration, the failure screenshot included, leaves that        *)
(* iteration: the run is never cut short by one.                             *)
C3_NoTransportFailureEscapes ==
    ~(IterationAborted /\ exc \in TransportKinds)

(* C4: outside the supervised section no alarm is pending; the only alarm    *)
(* ever pending is the one the running iteration armed, and none is pending  *)
(* when an iteration arms its own.                                           *)
C4_DeadlineDisarmedOnEveryExit ==
    /\ alarm \in {0, i}
    /\ pc \notin Supervised => alarm = 0
    /\ ~calls.stale

(* The second url's iteration armed its alarm, an exception no clause names  *)
(* was raised in the try body, and finally has run.                          *)
C4_Witness ==
    /\ pc = "propagate"
    /\ exc = "Other"
    /\ calls.armed = 1
    /\ calls.fired = "none"
    /\ calls.shot = 0
    /\ i = 2
    /\ Len(db.website) = 1

(* C5: an expiry of the armed alarm is taken by the except clause of line    *)
(* 268 also when it comes while another except clause is running or while    *)
(* the finally clause is about to disarm: the TimeoutException it raises     *)
(* never propagates out of the iteration. (calls.fired is the statement the  *)
(* alarm interrupted; with no screenshot attempted, a propagating            *)
(* TimeoutException can only be the alarm's.)                                *)
C5_ExpiryNeverEscapes ==
    calls.fired \in {"except", "finally"} =>
        ~(/\ exc = "TimeoutException"
          /\ calls.shot = 0
          /\ IterationAborted)

(* C6: once the first is_authenticated answered TRUE, the iteration invokes  *)
(* neither authenticate, nor the manual wait, nor the second                 *)
(* is_authenticated, nor get_cookies, nor the scorer; it never takes the     *)
(* success branch, and the row it writes says failed with no Cookie or Token *)
(* row.                                                                      *)
C6_AmbiguousShortCircuits ==
    calls.first = "true" =>
        /\ calls.auth = 0 /\ calls.wait = 0 /\ calls.isauth2 = 0
        /\ calls.getck = 0 /\ calls.detect = 0
        /\ ~is_auth
        /\ tokens = <<>> /\ unique_cookies = <<>>
        /\ pc \notin {"authenticate", "wait", "is_auth2", "get_cookies", "dedup",
                      "detect", "classify"}
        /\ pc = "commit" => RecordedAsFailed(pending)
        /\ pc = "clean" => RecordedAsFailed(db)

(* An ambiguous page in manual mode, recorded. *)
C6_Witness ==
    /\ manual
    /\ calls.first = "true"
    /\ is_ambiguous
    /\ calls.shot = 1
    /\ pc = "clean"
    /\ RecordedAsFailed(db)

(* The failed flag of the row the running iteration wrote. *)
RowFailed(store) == \A n \in WebsiteRows(store, i) : store.website[n].failed

(* C7: the failed flag written for a url is (tokens is empty): TRUE after a  *)
(* failed login, an ambiguous page, a caught exception or an empty scorer    *)
(* answer, FALSE exactly when the scorer answered a non-empty list.          *)
C7_FailedIffNoTokens ==
    pc \in {"commit", "clean"} =>
        LET store == IF pc = "commit" THEN pending ELSE db
        IN /\ Cardinality(WebsiteRows(store, i)) = 1
           /\ RowFailed(store) <=> (tokens = <<>>)
           /\ calls.first = "true" => RowFailed(store)
           /\ ~is_auth => RowFailed(store)
           /\ calls.caught => RowFailed(store)
           /\ calls.scored = "empty" => RowFailed(store)
           /\ ~RowFailed(store) <=> calls.scored = "nonempty"

(* The scorer raised after cookies had been collected, and the url is        *)
(* recorded as failed.                                                       *)
C7_Witness ==
    /\ pc = "clean"
    /\ is_auth
    /\ calls.caught
    /\ calls.detect = 1
    /\ cookies # <<>>
    /\ RowFailed(db)

(* C8: a url without http:// or https:// in front is passed over: the loop   *)
(* never leaves its head for it (so nothing is armed, no browser call and no *)
(* screenshot is made and nothing is raised), no Website row is written for  *)
(* it, and the loop moves to the next url.                                   *)
C8_InvalidUrlSkipped ==
    \A k \in 1..Len(urls) :
        ~IsValidUrl(urls[k]) =>
            /\ WebsiteRows(db, k) = {}
            /\ WebsiteRows(pending, k) = {}
            /\ i = k => /\ pc = "loop"
                        /\ alarm = 0
                        /\ exc = "none"
                        /\ ENABLED SkipUrl

(* A url without scheme was passed over and the url after it was processed   *)
(* and committed.                                                            *)
C8_Witness ==
    /\ Len(urls) = 2
    /\ ~IsValidUrl(urls[1])
    /\ i = 2
    /\ pc = "clean"
    /\ WebsiteRows(db, 2) # {}
    /\ calls.shot = 0

IsPrefix(s, t) == Len(s) <= Len(t) /\ SubSeq(t, 1, Len(s)) = s

(* C9: committed rows are never changed or removed; rows become durable only *)
(* at the commit of the running url, all of that url's rows at once (its     *)
(* Website row, its cookies, its tokens); and when the run ends by an        *)
(* exception nothing of the open transaction is kept.                        *)
C9_PerUrlTransaction ==
    [][/\ IsPrefix(db.website, db'.website)
       /\ IsPrefix(db.cookie, db'.cookie)
       /\ IsPrefix(db.token, db'.token)
       /\ db' # db =>
            /\ pc = "commit"
            /\ WebsiteRows(db, i) = {}
            /\ Recorded(db', i)
            /\ Len(db'.website) = Len(db.website) + 1
            /\ Len(db'.cookie) = Len(db.cookie) + Len(unique_cookies)
            /\ Len(db'.token) = Len(db.token) + Len(tokens)
       /\ pc' = "aborted" =>
            /\ pending' = EmptyStore
            /\ db' = db
            /\ i <= Len(urls) => WebsiteRows(db', i) = {} \/ pc = "clean"
      ]_vars

(* The first url is committed with cookies and tokens; the store failed      *)
(* after part of the second url's rows were inserted; the run has ended.     *)
C9_Witness ==
    /\ pc = "aborted"
    /\ exc = "PersistenceError"
    /\ i = 2
    /\ ~has_failed
    /\ Len(db.website) = 1
    /\ CookieRows(db, 1) # {}
    /\ TokenRows(db, 1) # {}
    /\ WebsiteRows(db, 2) = {}

(* C10: a store error is not downgraded: it is propagating or has ended the  *)
(* run, inside the iteration that hit it; an iteration reaches its end only  *)
(* with its complete result committed; and once the error is raised no       *)
(* further url is taken up.                                                  *)
C10_StoreErrorAbortsRun ==
    /\ [](exc = "PersistenceError" => IterationAborted)
    /\ [](pc = "clean" => Recorded(db, i))
    /\ [][exc = "PersistenceError" =>
            /\ i' = i /\ db' = db /\ exc' = exc /\ calls' = calls
            /\ pc' = "aborted"]_vars

(* The store failed at the first of two urls; the run has ended there. *)
C10_Witness ==
    /\ pc = "aborted"
    /\ exc = "PersistenceError"
    /\ i = 1
    /\ Len(urls) = 2
    /\ IsValidUrl(urls[2])
    /\ db = EmptyStore

----------------------------------------------------------------------------
(* The statements of lines 247-261, reached only through the success branch  *)
(* of line 242.                                                              *)
SuccessBranch == {"get_cookies", "dedup", "detect"}

(* C11: in automatic mode, once the first is_authenticated answered false,   *)
(* authenticate is called at most once in the iteration, on                  *)
(* firefox.current_url, with no wait and no second query; line 242 is        *)
(* reached only after it returned, is_auth is the answer it gave, the        *)
(* success branch is entered only on the answer true and the answer false    *)
(* leaves the url recorded as failed.                                        *)
C11_AutomaticAuthenticatesOnce ==
    (~manual /\ calls.first = "false") =>
        /\ calls.auth <= 1
        /\ calls.wait = 0
        /\ calls.isauth2 = 0
        /\ calls.auth = 1 => calls.auth_on = "current_url"
        /\ calls.auth_result # "none" =>
              /\ calls.auth = 1
              /\ is_auth = (calls.auth_result = "true")
        /\ pc = "verdict" => calls.auth_result # "none"
        /\ pc \in SuccessBranch => calls.auth_result = "true"
        /\ calls.auth_result = "false" =>
              /\ calls.getck = 0
              /\ calls.detect = 0
              /\ pc = "clean" => RecordedAsFailed(db)

(* An automatic login was refused at the second url: one authenticate call,  *)
(* and the url is stored as failed.                                          *)
C11_Witness ==
    /\ ~manual
    /\ i = 2
    /\ pc = "clean"
    /\ calls.first = "false"
    /\ calls.auth = 1
    /\ calls.auth_result = "false"
    /\ RecordedAsFailed(db)

(* C12: in manual mode, once the first is_authenticated answered false,      *)
(* authenticate is never called; the second is_authenticated query is made   *)
(* once, after the wait of args.timetologin was served; is_auth is the       *)
(* answer of that query and the success branch is entered only on true. On   *)
(* the answer false no cookie is fetched, the scorer is not called, the      *)
(* branch itself raises nothing and the url is written as failed with no     *)
(* cookie and no token.                                                      *)
C12_ManualWaitsThenAsksAgain ==
    (manual /\ calls.first = "false") =>
        /\ calls.auth = 0
        /\ calls.wait <= 1
        /\ calls.isauth2 <= 1
        /\ (calls.isauth2 = 1 \/ pc = "is_auth2") => calls.wait = 1
        /\ calls.second # "none" =>
              /\ calls.isauth2 = 1
              /\ is_auth = (calls.second = "true")
        /\ pc = "verdict" => calls.second # "none"
        /\ pc \in SuccessBranch => calls.second = "true"
        /\ calls.second = "false" =>
              /\ calls.getck = 0
              /\ calls.detect = 0
              /\ tokens = <<>>
              /\ (calls.fired = "none" /\ calls.shot = 0) =>
                    (exc = "none" /\ handling = "none" /\ ~calls.caught)
              /\ pc = "commit" => RecordedAsFailed(pending)
              /\ pc = "clean" => RecordedAsFailed(db)

(* A manual login that was not completed in time: the wait was served, the   *)
(* second query answered false, the url is stored as failed.                 *)
C12_Witness ==
    /\ manual
    /\ pc = "clean"
    /\ calls.first = "false"
    /\ calls.wait = 1
    /\ calls.second = "false"
    /\ ~calls.caught
    /\ RecordedAsFailed(db)

(* The cookies and the tokens stored for url k, in insertion order. *)
SiteCookies(store, k) ==
    LET rows == SelectSeq(store.cookie, LAMBDA r : r.site = k)
    IN [n \in 1..Len(rows) |-> rows[n].ck]

SiteTokens(store, k) ==
    LET rows == SelectSeq(store.token, LAMBDA r : r.site = k)
    IN [n \in 1..Len(rows) |-> rows[n].tk]

(* C13: when the login succeeded and the scorer answered a non-empty list,   *)
(* the rows committed for the url are one Website row with failed = FALSE,   *)
(* the Token rows are the scorer's answer in its order, and the Cookie rows  *)
(* are the cookies get_cookies returned, deduplicated and then flagged from  *)
(* the answer of get_http_cookies, none added and none dropped.              *)
C13_SuccessRowsAreTheResult ==
    (pc = "clean" /\ calls.scored = "nonempty") =>
        /\ Cardinality(WebsiteRows(db, i)) = 1
        /\ \A n \in WebsiteRows(db, i) :
              db.website[n] = [id |-> i, url |-> url, failed |-> FALSE]
        /\ tokens # <<>>
        /\ tokens \in ScorerOutputs(delete_duplicates(cookies), maxtokens)
        /\ SiteTokens(db, i) = tokens
        /\ SiteCookies(db, i) = LabelAll(delete_duplicates(cookies), calls.http_data)

(* The browser returned one cookie MaxCookies times; one Cookie row and one  *)
(* Token row are committed for the url.                                      *)
C13_Witness ==
    /\ pc = "clean"
    /\ calls.scored = "nonempty"
    /\ Len(cookies) = MaxCookies
    /\ Len(SiteCookies(db, i)) = 1
    /\ Len(SiteTokens(db, i)) = 1
    /\ ~has_failed

(* Every cookie of cks carries the two flags of lines 295-296. *)
Classified(cks) ==
    \A k \in 1..Len(cks) : {"js", "httponly"} \subseteq DOMAIN cks[k]

(* C14: the stages run in the order deduplicate, classify, score: whenever   *)
(* the scorer is about to be called, the cookies it is handed are            *)
(* deduplicated and every one of them carries its js and httponly flag.      *)
C14_ScorerReceivesClassified ==
    pc = "detect" => (IsInjective(unique_cookies) /\ Classified(unique_cookies))

(* C15: with args.timeout = 0 no alarm is ever armed and none fires; with    *)
(* args.timeout > 0, once the deadline has interrupted a step of the try     *)
(* body the iteration goes on to its persistence step and the loop to the    *)
(* next url: it is not cut short before add_entry is reached (a store error  *)
(* apart, which ends the run by design).                                     *)
C15_DeadlineBoundsTheIteration ==
    /\ timeout = 0 => (alarm = 0 /\ calls.fired = "none")
    /\ calls.fired \in TryBody =>
          ~(IterationAborted /\ exc # "PersistenceError")

----------------------------------------------------------------------------
(* The deduplication on its own: one url, automatic mode, no deadline; the   *)
(* login has succeeded and firefox.get_cookies() has just returned a         *)
(* sequence of DedupInputs. The iteration then runs from line 253 to its     *)
(* end.                                                                      *)
InitDedup ==
    /\ urls = <<UrlHttps>>
    /\ manual = FALSE
    /\ timeout = 0
    /\ maxtokens = 1
    /\ i = 1
    /\ pc = "dedup"
    /\ url = RemoveSpaces(UrlHttps)
    /\ is_auth = TRUE
    /\ is_ambiguous = FALSE
    /\ cookies \in DedupInputs
    /\ unique_cookies = <<>>
    /\ tokens = <<>>
    /\ alarm = 0
    /\ handling = "none"
    /\ exc = "none"
    /\ db = EmptyStore
    /\ pending = EmptyStore
    /\ has_failed = FALSE
    /\ calls = Inc(Authenticated(Set(Set(Set(NoCalls, "started", TRUE),
                                         "stale", FALSE), "first", "false"),
                                 "true"), "getck")
    /\ firefox_quit = 0
    /\ ghost_quit = 0

NextDedup ==
    \/ Dedup
    \/ Detect
    \/ Except
    \/ Finally
    \/ Post
    \/ Screenshot
    \/ Classify
    \/ AddEntry
    \/ Commit
    \/ Rollback

SpecDedup == InitDedup /\ [][NextDedup]_vars

(* The deduplication key of a cookie. *)
Key(ck) == <<ck.name, ck.value, ck.domain>>

NoSharedKey(s) ==
    \A j, k \in 1..Len(s) : j # k => Key(s[j]) # Key(s[k])

(* The position in s of the first cookie with the key of ck. *)
FirstSeen(s, ck) ==
    CHOOSE k \in 1..Len(s) :
        /\ Key(s[k]) = Key(ck)
        /\ \A j \in 1..(k - 1) : Key(s[j]) # Key(ck)

(* C16: for every raw cookie sequence, what line 253 hands on is the         *)
(* sequence with each distinct (name, value, domain) kept once in first-seen *)
(* order: it is no longer than the input, no two of its cookies share the    *)
(* key, it has exactly the keys of the input, each cookie is the first       *)
(* occurrence of its key and they stand in the order of those occurrences,   *)
(* an input without duplicates comes back unchanged, and deduplicating the   *)
(* output changes nothing. No two Cookie rows written for one Website share  *)
(* the key.                                                                  *)
C16_DedupKeepsFirstOccurrences ==
    /\ pc = "detect" =>
          /\ Len(unique_cookies) <= Len(cookies)
          /\ NoSharedKey(unique_cookies)
          /\ { Key(ck) : ck \in Range(unique_cookies) } = { Key(ck) : ck \in Range(cookies) }
          /\ \A k \in 1..Len(unique_cookies) :
                unique_cookies[k] = cookies[FirstSeen(cookies, unique_cookies[k])]
          /\ \A j, k \in 1..Len(unique_cookies) :
                j < k => FirstSeen(cookies, unique_cookies[j])
                           < FirstSeen(cookies, unique_cookies[k])
          /\ NoSharedKey(cookies) => unique_cookies = cookies
          /\ delete_duplicates(unique_cookies) = unique_cookies
    /\ \A k \in 1..Len(urls) :
          /\ NoSharedKey(SiteCookies(pending, k))
          /\ NoSharedKey(SiteCookies(db, k))

(* The browser returned three cookies, two of them the same; the two stored  *)
(* have the same name and domain and differ in the value only.               *)
C16_Witness ==
    /\ pc = "clean"
    /\ Len(cookies) = 3
    /\ Len(SiteCookies(db, 1)) = 2
    /\ SiteCookies(db, 1)[1].name = SiteCookies(db, 1)[2].name
    /\ SiteCookies(db, 1)[1].domain = SiteCookies(db, 1)[2].domain
    /\ SiteCookies(db, 1)[1].value # SiteCookies(db, 1)[2].value

----------------------------------------------------------------------------
(* The flags of ck are the ones lines 295-296 derive from the two name sets  *)
(* get_http_cookies answered.                                                *)
FlagsFollow(ck, data) ==
    /\ ck.js = ~(ck.name \in data[1])
    /\ ck.httponly = (ck.name \in data[2])

(* C17: every cookie written for a url that did not fail has js TRUE exactly *)
(* when its name is not among the domain's HTTP cookie names, and httponly   *)
(* TRUE exactly when its name is among the HttpOnly names; each flag depends *)
(* on its own set only.                                                      *)
C17_FlagsFollowTheNameSets ==
    /\ (pc \in {"add_entry", "commit", "clean"} /\ ~has_failed) =>
          \A k \in 1..Len(unique_cookies) :
              FlagsFollow(unique_cookies[k], calls.http_data)
    /\ (pc = "commit" /\ ~has_failed) =>
          \A ck \in Range(SiteCookies(pending, i)) : FlagsFollow(ck, calls.http_data)
    /\ (pc = "clean" /\ ~has_failed) =>
          /\ SiteCookies(db, i) # <<>>
          /\ \A ck \in Range(SiteCookies(db, i)) : FlagsFollow(ck, calls.http_data)

(* Two urls are stored and their cookies show all four combinations of the   *)
(* two flags.                                                                *)
C17_Witness ==
    /\ pc = "clean"
    /\ i = 2
    /\ \A j, h \in BOOLEAN :
          \E k \in 1..2 : \E ck \in Range(SiteCookies(db, k)) :
              ck.js = j /\ ck.httponly = h

----------------------------------------------------------------------------
(* The statements after has_failed is decided and the log image, if any, is  *)
(* taken.                                                                    *)
Persisting == {"add_entry", "commit", "clean"}

(* C18: the log image is requested for a url exactly when its outcome is     *)
(* failed, an ambiguous page included, and at most once; it is requested     *)
(* after the finally clause has disarmed the alarm and before anything is    *)
(* written for the url; and once it has been taken the iteration holds no    *)
(* cookie, so none is written.                                               *)
C18_ScreenshotIffFailed ==
    /\ calls.shot <= 1
    /\ pc \in Supervised \cup {"arm", "post"} => calls.shot = 0
    /\ calls.shot = 1 => has_failed
    /\ pc \in Persisting => (calls.shot = 1 <=> has_failed)
    /\ (pc \in Persisting /\ is_ambiguous) => calls.shot = 1
    /\ pc = "screenshot" =>
          /\ has_failed
          /\ alarm = 0
          /\ WebsiteRows(pending, i) = {}
          /\ WebsiteRows(db, i) = {}
    /\ (pc \in Persisting /\ calls.shot = 1) =>
          /\ unique_cookies = <<>>
          /\ CookieRows(pending, i) = {}
          /\ CookieRows(db, i) = {}

(* The scorer found no token among the cookies collected: the log image was  *)
(* taken, the cookies were dropped and the url is stored as failed.          *)
C18_Witness ==
    /\ pc = "clean"
    /\ calls.shot = 1
    /\ calls.scored = "empty"
    /\ cookies # <<>>
    /\ unique_cookies = <<>>
    /\ RecordedAsFailed(db)

----------------------------------------------------------------------------
(* C19: the two browsers opened before the loop are kept for the whole       *)
(* batch: as long as a url is left, and until the loop has been left,        *)
(* neither has been quit; firefox is quit first, ghost after it, each at     *)
(* most once; and a run that reaches its end has quit both exactly once.     *)
C19_BrowsersQuitOnceAtEnd ==
    /\ firefox_quit <= 1
    /\ ghost_quit <= 1
    /\ (i <= Len(urls) \/ pc \in {"loop", "quit_firefox"}) =>
          (firefox_quit = 0 /\ ghost_quit = 0)
    /\ pc = "quit_ghost" => (firefox_quit = 1 /\ ghost_quit = 0)
    /\ ghost_quit = 1 => firefox_quit = 1
    /\ pc = "done" => (firefox_quit = 1 /\ ghost_quit = 1)

(* Two urls were processed with the same two sessions and the run has ended: *)
(* both browsers have been quit once.                                        *)
C19_Witness ==
    /\ pc = "done"
    /\ Len(db.website) = 2
    /\ firefox_quit = 1
    /\ ghost_quit = 1

----------------------------------------------------------------------------
(* C20: in one iteration get_cookies and the scorer are each called at most  *)
(* once, the scorer only after get_cookies, and both only when the first     *)
(* is_authenticated answered false and the login then gave the verdict true  *)
(* (authenticate in automatic mode, the second is_authenticated in manual    *)
(* mode): never on a failed login or an ambiguous page. Passing over a url   *)
(* without scheme calls nothing.                                             *)
C20_CollectOnlyAfterPositiveVerdict ==
    /\ [](/\ calls.getck <= 1
          /\ calls.detect <= 1
          /\ (calls.detect = 1 \/ pc \in {"dedup", "detect"}) => calls.getck = 1
          /\ (calls.getck = 1 \/ pc \in SuccessBranch) =>
                /\ calls.first = "false"
                /\ is_auth
                /\ ~is_ambiguous
                /\ IF manual THEN calls.second = "true"
                             ELSE calls.auth_result = "true")
    /\ [][(pc = "loop" /\ pc' = "loop") => calls' = calls]_vars

(* A manual login was confirmed by the second query; the cookies were        *)
(* fetched once and the scorer was called once.                              *)
C20_Witness ==
    /\ manual
    /\ pc = "finally"
    /\ calls.first = "false"
    /\ calls.second = "true"
    /\ calls.getck = 1
    /\ calls.detect = 1
    /\ tokens # <<>>

====
